---- MODULE Spec2Model ----
(***************************************************************************)
(* Model of the mental-health support chatbot backend: the message store   *)
(* (database_service.py, models.py), the keyword classifier and the        *)
(* completion gateway (ai_service.py) and the request handlers (main.py).  *)
(* Texts are TLA+ strings; the Python string operations the code uses      *)
(* (lower, strip, split, in, join, replace, len) are modelled character by *)
(* character.                                                              *)
(***************************************************************************)
EXTENDS Naturals, Sequences, FiniteSets, TLC

(***************************************************************************)
(* Python string operations                                                *)
(***************************************************************************)
Char(s, i) == SubSeq(s, i, i)

UpperLetters == "ABCDEFGHIJKLMNOPQRSTUVWXYZ"
LowerLetters == "abcdefghijklmnopqrstuvwxyz"

\* str.lower() on one character: ASCII letters only.
LowerCase ==
    [i \in 1..Len(UpperLetters) |-> <<Char(UpperLetters, i), Char(LowerLetters, i)>>]

LowerChar(c) ==
    IF \E i \in 1..Len(LowerCase) : LowerCase[i][1] = c
    THEN LowerCase[CHOOSE i \in 1..Len(LowerCase) : LowerCase[i][1] = c][2]
    ELSE c

RECURSIVE lower(_)
lower(s) ==
    IF Len(s) = 0 THEN ""
    ELSE IF Len(s) = 1 THEN LowerChar(s)
    ELSE LET half == Len(s) \div 2 IN
         lower(SubSeq(s, 1, half)) \o lower(SubSeq(s, half + 1, Len(s)))

\* The characters str.split() and str.strip() treat as whitespace.
IsSpace(c) == c \in {" ", "\n", "\t", "\r", "\f"}

RECURSIVE lstrip(_)
lstrip(s) == IF Len(s) > 0 /\ IsSpace(Char(s, 1)) THEN lstrip(Tail(s)) ELSE s

RECURSIVE rstrip(_)
rstrip(s) ==
    IF Len(s) > 0 /\ IsSpace(Char(s, Len(s)))
    THEN rstrip(SubSeq(s, 1, Len(s) - 1))
    ELSE s

strip(s) == rstrip(lstrip(s))

\* str.split() without arguments: runs of whitespace separate the tokens,
\* leading and trailing whitespace yields no empty token. A token starts at
\* a character that is not whitespace and follows whitespace or nothing, and
\* runs up to the next whitespace.
split(s) ==
    LET starts == {i \in 1..Len(s) :
                      /\ ~IsSpace(Char(s, i))
                      /\ i = 1 \/ IsSpace(Char(s, i - 1))}
        ends == {i \in 1..Len(s) :
                    /\ ~IsSpace(Char(s, i))
                    /\ i = Len(s) \/ IsSpace(Char(s, i + 1))}
        nth(set, k) == CHOOSE i \in set : Cardinality({j \in set : j <= i}) = k
    IN  [k \in 1..Cardinality(starts) |-> SubSeq(s, nth(starts, k), nth(ends, k))]

\* keyword in text: substring containment.
Contains(text, keyword) ==
    \E i \in 1..(Len(text) + 1) :
        /\ i + Len(keyword) - 1 <= Len(text)
        /\ SubSeq(text, i, i + Len(keyword) - 1) = keyword

\* sep.join(parts)
RECURSIVE join(_, _)
join(sep, parts) ==
    IF Len(parts) = 0 THEN ""
    ELSE IF Len(parts) = 1 THEN parts[1]
    ELSE LET half == Len(parts) \div 2 IN
         join(sep, SubSeq(parts, 1, half)) \o sep
            \o join(sep, SubSeq(parts, half + 1, Len(parts)))

\* text.replace(old, new) for a one-character old.
RECURSIVE replace(_, _, _)
replace(s, old, new) ==
    IF Len(s) = 0 THEN ""
    ELSE IF Len(s) = 1 THEN (IF s = old THEN new ELSE s)
    ELSE LET half == Len(s) \div 2 IN
         replace(SubSeq(s, 1, half), old, new) \o replace(SubSeq(s, half + 1, Len(s)), old, new)

\* any(keyword in text for keyword in keywords)
AnyIn(keywords, text) == \E k \in keywords : Contains(text, k)

(***************************************************************************)
(* ai_service.py                                                           *)
(***************************************************************************)
crisis_keywords ==
    {"suicide", "kill myself", "end it all", "don't want to live", "give up",
     "no reason to live"}
urgent_keywords ==
    {"emergency", "urgent", "help now", "crisis", "panic", "overwhelmed",
     "can't cope"}
positive_keywords ==
    {"better", "improved", "happy", "good", "progress", "achievement",
     "positive", "grateful"}
negative_keywords ==
    {"sad", "depressed", "anxious", "worried", "struggling", "difficult",
     "negative", "hopeless"}
wellness_keywords ==
    {"therapy", "meditation", "exercise", "breathing", "coping", "recovery",
     "treatment"}

\* urgency_level of the returned dict.
urgency_level_low_first(is_crisis, is_urgent) ==
    IF is_urgent THEN "medium" ELSE IF is_crisis THEN "high" ELSE "low"

urgency_level(is_crisis, is_urgent) ==
    IF is_crisis THEN "high" ELSE IF is_urgent THEN "medium" ELSE "low"

\* AIService.analyze_user_message
analyze_user_message(message) ==
    LET message_lower == lower(message)
        is_crisis == AnyIn(crisis_keywords, message_lower)
        is_urgent == AnyIn(urgent_keywords, message_lower)
    IN  [is_crisis |-> is_crisis,
         is_urgent |-> is_urgent,
         is_positive |-> AnyIn(positive_keywords, message_lower),
         is_negative |-> AnyIn(negative_keywords, message_lower),
         is_wellness |-> AnyIn(wellness_keywords, message_lower),
         message_length |-> Len(message),
         has_question |-> Contains(message, "?"),
         urgency_level |-> urgency_level(is_crisis, is_urgent)]

\* The line substituted for an empty or too short completion.
GenericFallback ==
    "I understand what you're saying. Could you tell me more about how you're feeling?"

\* The reply returned when anything inside generate_response raises.
ApologyFallback ==
    "I'm here to listen and support you. I'm experiencing some technical difficulties right now, "
    \o "but I want you to know that your feelings are valid and important. "
    \o "Would you like to try sharing again?"

\* Completions shorter than this many characters are replaced.
MinResponseLen == 10

\* The outcome of model.generate_content(prompt) followed by response.text:
\* a text, or an exception.
Returned(text) == [raised |-> FALSE, text |-> text]
Raised == [raised |-> TRUE, text |-> ""]

\* The body of the try block of generate_response after the call returned.
checked_response_untrimmed(text) ==
    IF Len(text) = 0 \/ Len(text) < MinResponseLen THEN GenericFallback ELSE text

checked_response(text) ==
    LET ai_response == strip(text) IN
    IF Len(ai_response) = 0 \/ Len(ai_response) < MinResponseLen
    THEN GenericFallback
    ELSE ai_response

\* AIService.generate_response, given the outcome of the completion call.
\* The result is again a text or an exception, as the caller sees it.
generate_response_propagating(completion) ==
    IF completion.raised THEN Raised ELSE Returned(checked_response(completion.text))

generate_response(completion) ==
    IF completion.raised
    THEN Returned(ApologyFallback)
    ELSE Returned(checked_response(completion.text))

(***************************************************************************)
(* The store: models.py and database_service.py                            *)
(***************************************************************************)
VARIABLES
    conversations,  \* table conversations: sequence of rows, id = position
    messages        \* table messages: sequence of rows, id = position

\* A row of table conversations (created_at and updated_at are not modelled:
\* nothing reads them but the summary, which passes them through).
Conversation(id, user_id) == [id |-> id, user_id |-> user_id]

\* A row of table messages.
Message(id, user_id, conversation_id, role, content, timestamp) ==
    [id |-> id, user_id |-> user_id, conversation_id |-> conversation_id,
     role |-> role, content |-> content, timestamp |-> timestamp]

Rows(table) == {table[i] : i \in 1..Len(table)}

\* No conversation: the None of Query.first().
None == 0

\* db.query(Conversation).filter(Conversation.user_id == user_id).first():
\* the id of the row, or None.
query_conversation_unfiltered(user_id) ==
    IF conversations = <<>> THEN None ELSE conversations[1].id

query_conversation(user_id) ==
    LET found == {c \in Rows(conversations) : c.user_id = user_id} IN
    IF found = {} THEN None
    ELSE (CHOOSE c \in found : \A d \in found : c.id <= d.id).id

\* The latest timestamp any message carries (0 in an empty table).
LastTimestamp ==
    IF messages = <<>> THEN 0
    ELSE LET ts == {m.timestamp : m \in Rows(messages)} IN
         CHOOSE t \in ts : \A u \in ts : u <= t

\* Every order of a set of rows.
RECURSIVE orders(_)
orders(rows) ==
    IF rows = {} THEN {<<>>}
    ELSE UNION {{<<m>> \o rest : rest \in orders(rows \ {m})} : m \in rows}

\* ORDER BY timestamp DESC over a set of rows. SQL leaves the order of rows
\* with equal timestamps open: every order the database may produce. The
\* rows after the middle timestamp come first, then the others.
RECURSIVE order_by_timestamp_desc(_)
order_by_timestamp_desc(rows) ==
    IF rows = {} THEN {<<>>}
    ELSE LET ts == {m.timestamp : m \in rows}
             lo == CHOOSE t \in ts : \A u \in ts : t <= u
             hi == CHOOSE t \in ts : \A u \in ts : u <= t
             mid == (lo + hi) \div 2
         IN  IF lo = hi THEN orders(rows)
             ELSE {later \o earlier :
                      later \in order_by_timestamp_desc({m \in rows : m.timestamp > mid}),
                      earlier \in order_by_timestamp_desc({m \in rows : m.timestamp <= mid})}

\* .limit(n).all()
limit(rows, n) == SubSeq(rows, 1, IF n < Len(rows) THEN n ELSE Len(rows))

reversed_unchanged(rows) == rows

reversed(rows) == [i \in 1..Len(rows) |-> rows[Len(rows) + 1 - i]]

\* The dict get_conversation_history returns for one row.
history_entry(msg) ==
    [role |-> msg.role, content |-> msg.content, timestamp |-> msg.timestamp]

\* DatabaseService.get_conversation_history: the lists it may return.
get_conversation_history_newest_first(user_id, n) ==
    LET conversation == query_conversation(user_id) IN
    IF conversation = None THEN {<<>>}
    ELSE {[i \in 1..Len(limit(ordered, n)) |-> history_entry(limit(ordered, n)[i])] :
            ordered \in order_by_timestamp_desc(
                {m \in Rows(messages) : m.conversation_id = conversation})}

get_conversation_history(user_id, n) ==
    LET conversation == query_conversation(user_id) IN
    IF conversation = None THEN {<<>>}
    ELSE {[i \in 1..Len(limit(ordered, n)) |->
                history_entry(reversed(limit(ordered, n))[i])] :
            ordered \in order_by_timestamp_desc(
                {m \in Rows(messages) : m.conversation_id = conversation})}

\* Word lists of get_user_sentiment_history.
positive_words ==
    {"good", "great", "happy", "better", "improved", "thanks", "helpful",
     "positive", "progress"}
negative_words ==
    {"bad", "sad", "depressed", "anxious", "worried", "struggling", "difficult",
     "negative", "hopeless"}

\* The window of user-authored messages the analysis reads.
AnalysisWindow == 50
\* Tokens must be longer than this to count as a topic.
MinTopicLen == 3
\* How many topics are reported.
MaxTopics == 5
\* total_messages above these are medium and high engagement.
MediumAbove == 10
HighAbove == 20

\* sum(1 for word in words if word in word_list)
count_in(words, word_list) ==
    Cardinality({i \in 1..Len(words) : words[i] \in word_list})

\* word_freq[word], the number of occurrences of word among words.
word_freq(words, word) == Cardinality({i \in 1..Len(words) : words[i] = word})

\* The k-th smallest element of a set of numbers.
nth_smallest(set, k) == CHOOSE i \in set : Cardinality({j \in set : j <= i}) = k

\* The keys of the dict word_freq in insertion order: each token longer than
\* MinTopicLen, at the place of its first occurrence.
word_freq_keys(words) ==
    LET first == {i \in 1..Len(words) :
                     /\ Len(words[i]) > MinTopicLen
                     /\ \A j \in 1..(i - 1) : words[j] # words[i]}
    IN  [k \in 1..Cardinality(first) |-> words[nth_smallest(first, k)]]

\* sorted(items, key=count, reverse=True): descending by count, stable, so
\* keys of equal count keep their insertion order. A key comes after the
\* keys of greater count and the earlier keys of equal count.
sorted_by_count_desc_ties_reversed(keys, words) ==
    LET before(i) == {j \in 1..Len(keys) :
                         \/ word_freq(words, keys[j]) > word_freq(words, keys[i])
                         \/ /\ word_freq(words, keys[j]) = word_freq(words, keys[i])
                            /\ j > i}
    IN  [k \in 1..Len(keys) |->
            keys[CHOOSE i \in 1..Len(keys) : Cardinality(before(i)) = k - 1]]

sorted_by_count_desc(keys, words) ==
    LET before(i) == {j \in 1..Len(keys) :
                         \/ word_freq(words, keys[j]) > word_freq(words, keys[i])
                         \/ /\ word_freq(words, keys[j]) = word_freq(words, keys[i])
                            /\ j < i}
    IN  [k \in 1..Len(keys) |->
            keys[CHOOSE i \in 1..Len(keys) : Cardinality(before(i)) = k - 1]]

engagement_level_inclusive(total_messages) ==
    IF total_messages >= HighAbove THEN "high"
    ELSE IF total_messages >= MediumAbove THEN "medium"
    ELSE "low"

engagement_level(total_messages) ==
    IF total_messages > HighAbove THEN "high"
    ELSE IF total_messages > MediumAbove THEN "medium"
    ELSE "low"

sentiment_of(positive_count, negative_count) ==
    IF positive_count > negative_count THEN "positive"
    ELSE IF negative_count > positive_count THEN "negative"
    ELSE "neutral"

\* The dict returned for a user without conversation or user message.
ZeroAnalysis == [message_count |-> 0, topics |-> <<>>, sentiment |-> "neutral"]

\* The tokens of the concatenated lower-cased window.
window_words(user_messages) ==
    split(join(" ", [i \in 1..Len(user_messages) |-> lower(user_messages[i].content)]))

\* The analysis of a non-empty window of user messages, newest first.
analysis_of(user_messages, total_messages) ==
    LET words == window_words(user_messages)
        ranked == sorted_by_count_desc(word_freq_keys(words), words)
    IN  [message_count |-> Len(user_messages),
         total_messages |-> total_messages,
         topics |-> limit(ranked, MaxTopics),
         sentiment |-> sentiment_of(count_in(words, positive_words),
                                    count_in(words, negative_words)),
         last_message_time |-> user_messages[1].timestamp,
         engagement_level |-> engagement_level(total_messages)]

\* The rows the user_messages query selects from.
user_message_rows_any_role(conversation) ==
    {m \in Rows(messages) : m.conversation_id = conversation}

user_message_rows_assistant(conversation) ==
    {m \in Rows(messages) : m.conversation_id = conversation /\ m.role = "assistant"}

user_message_rows(conversation) ==
    {m \in Rows(messages) : m.conversation_id = conversation /\ m.role = "user"}

\* db.query(Message).filter(Message.user_id == user_id).count()
count_user_messages(user_id) ==
    Cardinality({m \in Rows(messages) : m.user_id = user_id})

\* DatabaseService.get_user_sentiment_history: the dicts it may return.
get_user_sentiment_history(user_id) ==
    LET conversation == query_conversation(user_id) IN
    IF conversation = None THEN {ZeroAnalysis}
    ELSE IF user_message_rows(conversation) = {} THEN {ZeroAnalysis}
    ELSE {analysis_of(limit(ordered, AnalysisWindow), count_user_messages(user_id)) :
            ordered \in order_by_timestamp_desc(user_message_rows(conversation))}

\* DatabaseService.get_user_conversation_summary
get_user_conversation_summary(user_id) ==
    LET conversation == query_conversation(user_id) IN
    IF conversation = None
    THEN [total_conversations |-> 0, total_messages |-> 0]
    ELSE [total_conversations |-> 1,
          total_messages |->
              Cardinality({m \in Rows(messages) : m.conversation_id = conversation})]

(***************************************************************************)
(* main.py: the request handlers                                           *)
(***************************************************************************)
VARIABLES
    chat,   \* per POST /chat request: where it stands and its local variables
    reply,  \* the response to a GET request, until the next step of a request
    unit    \* a direct call of a function of ai_service.py: input and result

vars == <<conversations, messages, chat, reply, unit>>

\* How many POST /chat requests a behaviour holds.
NumRequests == 2
Requests == 1..NumRequests

Users == {"u1", "u2"}

\* Message texts posted to /chat.
ChatTexts == {"I want to END it all", "feeling good"}

\* Texts the completion service answers with.
Completions == {"  We are here for you. \n"}

\* The largest limit asked of GET /conversation/{user_id}/history.
MaxLimit == 2

\* limit of the history the chat endpoint loads.
ChatHistoryLimit == 10

\* The reply chat_endpoint substitutes when the executor call raises.
ExecutorFallback ==
    "I'm sorry, I'm having trouble responding right now. Please try again later."

\* The notice appended for a crisis message (the warning sign U+26A0 U+FE0F
\* of the source is written "!!").
CrisisNotice ==
    "\n\n!! If you're having thoughts of self-harm, please contact the National Suicide "
    \o "Prevention Lifeline at 988 or 1-800-273-8255. You're not alone, and help is available 24/7."

NoReply == [endpoint |-> "none"]

NoCall == [fn |-> "none"]

IdleChat ==
    [pc |-> "idle", user_id |-> "", message |-> "", conversation |-> None,
     user_message |-> 0, conversation_history |-> <<>>, user_analysis |-> ZeroAnalysis,
     current_message_analysis |-> analyze_user_message(""),
     arrived_at |-> 0, completion |-> "none", ai_response |-> "", assistant_message |-> 0,
     status |-> 0, response |-> "", response_html |-> "", failed_at |-> "none",
     prompt |-> ""]

Init ==
    /\ conversations = <<>>
    /\ messages = <<>>
    /\ chat = [r \in Requests |-> IdleChat]
    /\ reply = NoReply
    /\ unit = NoCall

\* The statements of chat_endpoint that go to the database.
DbSteps ==
    {"get_conversation", "create_conversation", "save_user_message", "get_history",
     "get_analysis", "generate", "save_assistant_message"}

\* raise HTTPException(status_code=500, ...) of the outer handler.
internal_error(r) ==
    chat' = [chat EXCEPT ![r] = [@ EXCEPT !.pc = "done", !.status = 500,
                                          !.failed_at = chat[r].pc]]

\* User ids are interchangeable: a request comes from a user seen before or
\* from the first of those not yet seen.
SeenUsers == {chat[q].user_id : q \in {p \in Requests : chat[p].pc # "idle"}}
NextUsers ==
    SeenUsers \cup (IF "u1" \notin SeenUsers THEN {"u1"}
                    ELSE IF "u2" \notin SeenUsers THEN {"u2"} ELSE {})

\* datetime.utcnow() as the insert of a request reads it. Time has passed
\* since every row that was there when the request arrived and since the
\* rows of the request itself, so the clock reads later than the latest
\* timestamp; only when the latest timestamp belongs to rows that other
\* requests inserted meanwhile may the clock, of finite resolution, read
\* that same value.
utcnow(r) ==
    {LastTimestamp + 1} \cup
    {t \in {LastTimestamp} :
        /\ t > 0
        /\ \A m \in Rows(messages) :
              m.timestamp = t => m.id > chat[r].arrived_at /\ m.id # chat[r].user_message}

\* POST /chat arrives, once no request of the user is under way.
post_chat_one_at_a_time(r, user_id, message) ==
    /\ chat[r].pc = "idle"
    /\ \A q \in Requests : q < r => chat[q].pc # "idle"
    /\ \A q \in Requests : chat[q].user_id = user_id => chat[q].pc = "done"
    /\ user_id \in NextUsers
    /\ chat' = [chat EXCEPT ![r] = [@ EXCEPT !.pc = "get_conversation",
                                            !.user_id = user_id,
                                            !.message = message,
                                            !.arrived_at = Len(messages)]]
    /\ reply' = NoReply
    /\ UNCHANGED unit
    /\ UNCHANGED <<conversations, messages>>

\* POST /chat arrives.
post_chat(r, user_id, message) ==
    /\ chat[r].pc = "idle"
    /\ \A q \in Requests : q < r => chat[q].pc # "idle"
    /\ user_id \in NextUsers
    /\ chat' = [chat EXCEPT ![r] = [@ EXCEPT !.pc = "get_conversation",
                                            !.user_id = user_id,
                                            !.message = message,
                                            !.arrived_at = Len(messages)]]
    /\ reply' = NoReply
    /\ UNCHANGED unit
    /\ UNCHANGED <<conversations, messages>>

\* get_or_create_conversation: the lookup.
get_conversation(r) ==
    /\ chat[r].pc = "get_conversation"
    /\ LET conversation == query_conversation(chat[r].user_id) IN
       chat' = [chat EXCEPT ![r] =
                  [@ EXCEPT !.pc = IF conversation = None THEN "create_conversation"
                                   ELSE "save_user_message",
                            !.conversation = conversation]]
    /\ reply' = NoReply
    /\ UNCHANGED unit
    /\ UNCHANGED <<conversations, messages>>

\* Column user_id of conversations is declared unique: the insert of a second
\* row for a user id is refused.
unique_user_id_unchecked(user_id) == TRUE

unique_user_id(user_id) == \A c \in Rows(conversations) : c.user_id # user_id

\* get_or_create_conversation: add, commit, refresh.
create_conversation(r) ==
    /\ chat[r].pc = "create_conversation"
    /\ IF unique_user_id(chat[r].user_id)
       THEN /\ conversations' =
                   Append(conversations,
                          Conversation(Len(conversations) + 1, chat[r].user_id))
            /\ chat' = [chat EXCEPT ![r] = [@ EXCEPT !.pc = "save_user_message",
                                                    !.conversation = Len(conversations) + 1]]
       ELSE /\ internal_error(r)
            /\ UNCHANGED conversations
    /\ reply' = NoReply
    /\ UNCHANGED unit
    /\ UNCHANGED messages

\* DatabaseService.save_message: the table with the new row.
save_message_twice(user_id, conversation_id, role, content, timestamp) ==
    Append(Append(messages,
                  Message(Len(messages) + 1, user_id, conversation_id, role, content, timestamp)),
           Message(Len(messages) + 2, user_id, conversation_id, role, content, timestamp))

save_message_replacing(user_id, conversation_id, role, content, timestamp) ==
    IF messages = <<>>
    THEN <<Message(1, user_id, conversation_id, role, content, timestamp)>>
    ELSE [messages EXCEPT ![Len(messages)] =
            Message(Len(messages), user_id, conversation_id, role, content, timestamp)]

save_message(user_id, conversation_id, role, content, timestamp) ==
    Append(messages,
           Message(Len(messages) + 1, user_id, conversation_id, role, content, timestamp))

\* db_service.save_message(req.user_id, conversation.id, "user", req.message)
save_user_message(r) ==
    /\ chat[r].pc = "save_user_message"
    /\ \E now \in utcnow(r) :
          messages' = save_message(chat[r].user_id, chat[r].conversation, "user",
                                   chat[r].message, now)
    /\ chat' = [chat EXCEPT ![r] = [@ EXCEPT !.pc = "get_history",
                                            !.user_message = Len(messages) + 1]]
    /\ reply' = NoReply
    /\ UNCHANGED unit
    /\ UNCHANGED conversations

\* conversation_history = db_service.get_conversation_history(req.user_id, limit=10)
get_history(r) ==
    /\ chat[r].pc = "get_history"
    /\ \E history \in get_conversation_history(chat[r].user_id, ChatHistoryLimit) :
          chat' = [chat EXCEPT ![r] = [@ EXCEPT !.pc = "get_analysis",
                                               !.conversation_history = history]]
    /\ reply' = NoReply
    /\ UNCHANGED unit
    /\ UNCHANGED <<conversations, messages>>

\* user_analysis = db_service.get_user_sentiment_history(req.user_id);
\* current_message_analysis = ai_service.analyze_user_message(req.message)
get_analysis(r) ==
    /\ chat[r].pc = "get_analysis"
    /\ \E analysis \in get_user_sentiment_history(chat[r].user_id) :
          chat' = [chat EXCEPT ![r] =
                     [@ EXCEPT !.pc = "generate",
                               !.user_analysis = analysis,
                               !.current_message_analysis =
                                   analyze_user_message(chat[r].message)]]
    /\ reply' = NoReply
    /\ UNCHANGED unit
    /\ UNCHANGED <<conversations, messages>>

\* system_prompt of build_contextual_prompt.
SystemPrompt ==
    "You are a warm, supportive, and helpful assistant trained to support users with mental health "
    \o "and addiction recovery. You are not a therapist, but you offer empathetic, kind, and motivating conversation. "
    \o "Always maintain a supportive and non-judgmental tone. Personalize your responses based on the user's history and patterns."

\* How many turns of the history the prompt lists.
RecentTurns == 6

\* conversation_history[-6:]
recent_turns_oldest(conversation_history) ==
    SubSeq(conversation_history, 1,
           IF Len(conversation_history) < RecentTurns THEN Len(conversation_history)
           ELSE RecentTurns)

recent_turns(conversation_history) ==
    SubSeq(conversation_history,
           IF Len(conversation_history) > RecentTurns
           THEN Len(conversation_history) - RecentTurns + 1 ELSE 1,
           Len(conversation_history))

\* The lines of the user profile, appended when total_messages > 0.
profile_parts(user_analysis) ==
    IF user_analysis.total_messages > 0
    THEN <<"- Total messages: " \o ToString(user_analysis.total_messages),
           "- Engagement level: " \o user_analysis.engagement_level,
           "- Overall sentiment trend: " \o user_analysis.sentiment>>
         \o (IF user_analysis.topics # <<>>
             THEN <<"- Common topics discussed: " \o join(", ", user_analysis.topics)>>
             ELSE <<>>)
         \o (IF user_analysis.last_message_time # None
             THEN <<"- Last message was sent recently">>
             ELSE <<>>)
    ELSE <<>>

\* The line of the conversation summary.
summary_parts(user_summary) ==
    IF user_summary.total_conversations > 0
    THEN <<"- User has " \o ToString(user_summary.total_conversations)
            \o " total conversations">>
    ELSE <<>>

\* The recent history, one line per turn.
history_parts(conversation_history) ==
    IF conversation_history # <<>>
    THEN <<"\nRecent Conversation History:">>
         \o [i \in 1..Len(recent_turns(conversation_history)) |->
                (IF recent_turns(conversation_history)[i].role = "user"
                 THEN "User" ELSE "Assistant")
                \o ": " \o recent_turns(conversation_history)[i].content]
    ELSE <<>>

\* AIService.build_contextual_prompt: the prompt, or the KeyError of
\* user_analysis["total_messages"] for an analysis that has no such key.
build_contextual_prompt(user_id, user_message, conversation_history, user_analysis) ==
    IF "total_messages" \notin DOMAIN user_analysis THEN Raised
    ELSE Returned(join("\n",
            <<SystemPrompt, "\nUser Profile (ID: " \o user_id \o "):">>
            \o profile_parts(user_analysis)
            \o summary_parts(get_user_conversation_summary(user_id))
            \o history_parts(conversation_history)
            \o <<"\nCurrent User Message: " \o user_message, "\nAssistant:">>))

\* The except branch around run_in_executor: what ai_response becomes for a
\* result of generate_response.
executor_result(result) == IF result.raised THEN ExecutorFallback ELSE result.text

\* The threads of the default executor of the event loop, which
\* run_in_executor(None, ...) uses: min(32, cpu count + 4), so 5 at least.
ExecutorWorkers == 5

\* A thread of the executor is free to run generate_response.
executor_has_worker_single ==
    Cardinality({q \in Requests : chat[q].pc \in {"completion", "hung"}}) < 1

executor_has_worker ==
    Cardinality({q \in Requests : chat[q].pc \in {"completion", "hung"}}) < ExecutorWorkers

\* generate_response up to the completion call: the prompt is built, which
\* reads user_analysis["total_messages"] and the conversation summary; a
\* KeyError there is caught by generate_response like any exception.
generate(r) ==
    /\ chat[r].pc = "generate"
    /\ executor_has_worker
    /\ LET full_prompt == build_contextual_prompt(chat[r].user_id, chat[r].message,
                                                  chat[r].conversation_history,
                                                  chat[r].user_analysis)
       IN  IF ~full_prompt.raised
           THEN chat' = [chat EXCEPT ![r] = [@ EXCEPT !.pc = "completion",
                                                    !.prompt = full_prompt.text]]
           ELSE chat' = [chat EXCEPT ![r] =
                           [@ EXCEPT !.pc = "save_assistant_message",
                                     !.failed_at = "generate",
                                     !.ai_response =
                                         executor_result(generate_response(Raised))]]
    /\ reply' = NoReply
    /\ UNCHANGED unit
    /\ UNCHANGED <<conversations, messages>>

\* The completion call ends, with a text or an exception, and
\* generate_response returns.
completion_ends_retrying(r, completion) ==
    /\ chat[r].pc = "completion"
    /\ chat' = [chat EXCEPT ![r] =
                  [@ EXCEPT !.pc = IF completion.raised THEN "generate"
                                   ELSE "save_assistant_message",
                            !.completion = IF completion.raised THEN "raised" ELSE "returned",
                            !.ai_response = executor_result(generate_response(completion))]]
    /\ reply' = NoReply
    /\ UNCHANGED unit
    /\ UNCHANGED <<conversations, messages>>

completion_ends(r, completion) ==
    /\ chat[r].pc = "completion"
    /\ chat' = [chat EXCEPT ![r] =
                  [@ EXCEPT !.pc = "save_assistant_message",
                            !.completion = IF completion.raised THEN "raised" ELSE "returned",
                            !.ai_response = executor_result(generate_response(completion))]]
    /\ reply' = NoReply
    /\ UNCHANGED unit
    /\ UNCHANGED <<conversations, messages>>

\* The completion call of the request never returns: its thread of the
\* executor stays in the call and chat_endpoint stays at its await.
completion_hangs(r) ==
    /\ chat[r].pc = "completion"
    /\ chat' = [chat EXCEPT ![r] = [@ EXCEPT !.pc = "hung", !.completion = "hung"]]
    /\ reply' = NoReply
    /\ UNCHANGED unit
    /\ UNCHANGED <<conversations, messages>>

\* The response text: the crisis notice is appended after the reply was saved.
response_text(ai_response, is_crisis) ==
    IF is_crisis THEN ai_response \o CrisisNotice ELSE ai_response

\* The content saved for the assistant message.
assistant_content_with_notice(r) ==
    response_text(chat[r].ai_response, chat[r].current_message_analysis.is_crisis)

assistant_content(r) == chat[r].ai_response

\* From saving the AI response to the return of chat_endpoint.
save_assistant_message(r) ==
    /\ chat[r].pc = "save_assistant_message"
    /\ \E now \in utcnow(r) :
          messages' = save_message(chat[r].user_id, chat[r].conversation, "assistant",
                                   assistant_content(r), now)
    /\ IF {"total_messages", "engagement_level"} \subseteq DOMAIN chat[r].user_analysis
       THEN LET text == response_text(chat[r].ai_response,
                                      chat[r].current_message_analysis.is_crisis)
            IN  chat' = [chat EXCEPT ![r] =
                           [@ EXCEPT !.pc = "done",
                                     !.assistant_message = Len(messages) + 1,
                                     !.status = 200,
                                     !.response = text,
                                     !.response_html = replace(text, "\n", "<br>")]]
       ELSE chat' = [chat EXCEPT ![r] =
                       [@ EXCEPT !.pc = "done",
                                 !.assistant_message = Len(messages) + 1,
                                 !.status = 500,
                                 !.failed_at = "context_analysis"]]
    /\ reply' = NoReply
    /\ UNCHANGED unit
    /\ UNCHANGED conversations

\* A database call of the request raises and what the request had stored is
\* taken back.
persistence_failure_rolling_back(r) ==
    /\ chat[r].pc \in DbSteps
    /\ internal_error(r)
    /\ messages' = SelectSeq(messages, LAMBDA m : m.id # chat[r].user_message)
    /\ reply' = NoReply
    /\ UNCHANGED unit
    /\ UNCHANGED conversations

\* A database call of the request raises (connection lost, statement refused).
\* Inside generate_response the exception is caught there; everywhere else it
\* reaches the outer handler. An insert (add, commit, refresh) raises either
\* before its commit took effect or in the refresh after it.
persistence_failure(r) ==
    /\ chat[r].pc \in DbSteps
    /\ \/ /\ IF chat[r].pc = "generate"
             THEN chat' = [chat EXCEPT ![r] =
                             [@ EXCEPT !.pc = "save_assistant_message",
                                       !.failed_at = "get_user_conversation_summary",
                                       !.ai_response =
                                           executor_result(generate_response(Raised))]]
             ELSE internal_error(r)
          /\ UNCHANGED <<conversations, messages>>
       \/ /\ chat[r].pc = "create_conversation"
          /\ unique_user_id(chat[r].user_id)
          /\ conversations' =
                 Append(conversations,
                        Conversation(Len(conversations) + 1, chat[r].user_id))
          /\ internal_error(r)
          /\ UNCHANGED messages
       \/ /\ chat[r].pc \in {"save_user_message", "save_assistant_message"}
          /\ \E now \in utcnow(r) :
                messages' =
                    save_message(chat[r].user_id, chat[r].conversation,
                                 IF chat[r].pc = "save_user_message" THEN "user"
                                 ELSE "assistant",
                                 IF chat[r].pc = "save_user_message" THEN chat[r].message
                                 ELSE assistant_content(r),
                                 now)
          /\ internal_error(r)
          /\ UNCHANGED conversations
    /\ reply' = NoReply
    /\ UNCHANGED unit

\* GET /conversation/{user_id}/history?limit=n
get_conversation_history_endpoint(user_id, n) ==
    /\ reply = NoReply
    /\ \E history \in get_conversation_history(user_id, n) :
          reply' = [endpoint |-> "history", user_id |-> user_id, limit |-> n,
                    status |-> 200, history |-> history]
    /\ UNCHANGED <<conversations, messages, chat, unit>>

\* GET /user/{user_id}/analysis
get_user_analysis(user_id) ==
    /\ reply = NoReply
    /\ \E analysis \in get_user_sentiment_history(user_id) :
          reply' = [endpoint |-> "analysis", user_id |-> user_id, status |-> 200,
                    analysis |-> analysis,
                    summary |-> get_user_conversation_summary(user_id)]
    /\ UNCHANGED <<conversations, messages, chat, unit>>

\* GET /user/{user_id}/summary
get_user_summary(user_id) ==
    /\ reply = NoReply
    /\ reply' = [endpoint |-> "summary", user_id |-> user_id, status |-> 200,
                 summary |-> get_user_conversation_summary(user_id)]
    /\ UNCHANGED <<conversations, messages, chat, unit>>

\* The steps of the given POST /chat requests, for message texts and
\* completion outcomes drawn from the given sets.
chat_step(requests, texts, outcomes) ==
    \/ \E r \in requests, user_id \in Users, message \in texts :
          post_chat(r, user_id, message)
    \/ \E r \in requests : get_conversation(r)
    \/ \E r \in requests : create_conversation(r)
    \/ \E r \in requests : save_user_message(r)
    \/ \E r \in requests : get_history(r)
    \/ \E r \in requests : get_analysis(r)
    \/ \E r \in requests : generate(r)
    \/ \E r \in requests, completion \in outcomes : completion_ends(r, completion)
    \/ \E r \in requests : save_assistant_message(r)

CompletionOutcomes == {Returned(text) : text \in Completions} \cup {Raised}

\* Concurrent POST /chat requests.
Next == chat_step(Requests, ChatTexts, CompletionOutcomes)

Spec == Init /\ [][Next]_vars

\* Concurrent POST /chat requests and the GET endpoints.
ReadTexts == {"feeling good"}
ReadOutcomes == {Returned("  We are here for you. \n")}

NextRead ==
    \/ chat_step(Requests, ReadTexts, ReadOutcomes)
    \/ \E user_id \in Users, n \in 0..MaxLimit : get_conversation_history_endpoint(user_id, n)
    \/ \E user_id \in Users : get_user_analysis(user_id)
    \/ \E user_id \in Users : get_user_summary(user_id)

SpecRead == Init /\ [][NextRead]_vars

\* Concurrent POST /chat requests whose database calls may fail.
NextFailure ==
    \/ chat_step(Requests, ReadTexts, ReadOutcomes \cup {Raised})
    \/ \E r \in Requests : persistence_failure(r)

SpecFailure == Init /\ [][NextFailure]_vars

\* The request whose completion call may hang.
HangingRequest == 1

\* Concurrent POST /chat requests, the completion call of one of which may
\* never return. The event loop and the threads of the executor are
\* scheduled fairly: a request that can take a step takes it in the end.
\* That the completion service answers in the end is assumed for every call
\* but the hanging one.
HangTexts == {"ok"}
HangOutcomes == {Returned("We are here.")}

NextHang ==
    \/ chat_step(Requests, HangTexts, HangOutcomes)
    \/ completion_hangs(HangingRequest)

\* A step of chat_step({r}, ...) is possible: the request has not ended, its
\* turn to arrive has come and, at the dispatch, the executor has a thread.
Runnable(r) ==
    /\ chat[r].pc \notin {"done", "hung"}
    /\ chat[r].pc = "idle" => \A q \in Requests : q < r => chat[q].pc # "idle"
    /\ chat[r].pc = "generate" => executor_has_worker

\* Weak fairness of the steps of request r, WF_vars(chat_step({r}, ...)),
\* written out: a step of chat_step({r}, ...) is what changes chat[r].pc to
\* something else than "hung", and it is enabled exactly when Runnable(r).
Fair(r) ==
    \/ []<>(~Runnable(r))
    \/ []<><<chat'[r].pc # chat[r].pc /\ chat'[r].pc # "hung">>_vars

SpecHang ==
    /\ Init
    /\ [][NextHang]_vars
    /\ \A r \in Requests : Fair(r)

(***************************************************************************)
(* Direct calls of generate_response and analyze_user_message (SpecUnit)   *)
(***************************************************************************)
\* The longest completion text tried, before padding.
MaxCompletionLen == 11
CompletionBase == "Take care, my friend. You matter."
Padding == {"", " ", "\n\t"}

\* Completion texts around the length limit, with and without whitespace
\* around and inside them.
UnitCompletions ==
    {Returned(left \o SubSeq(CompletionBase, 1, n) \o right) :
        left \in Padding, right \in Padding, n \in 0..MaxCompletionLen}
    \cup {Raised}

\* How many fragments a message text is put together from.
MaxFragments == 2
Fragments ==
    {"I want to END it all", "kill  myself", "Suicide", "I give", "up now",
     "this is URGENT", "Panic!", "help", "now", "a crisis", "hello there?", "so sad"}

RECURSIVE Phrases(_)
Phrases(n) ==
    IF n <= 1 THEN Fragments
    ELSE Phrases(n - 1) \cup {p \o " " \o f : p \in Phrases(n - 1), f \in Fragments}

UnitMessages == Phrases(MaxFragments)

InitUnit ==
    /\ conversations = <<>>
    /\ messages = <<>>
    /\ chat = [r \in Requests |-> IdleChat]
    /\ reply = NoReply
    /\ unit \in {[fn |-> "generate_response", input |-> c, called |-> FALSE,
                  output |-> Raised] : c \in UnitCompletions}
                \cup {[fn |-> "analyze_user_message", input |-> m, called |-> FALSE,
                       output |-> analyze_user_message("")] : m \in UnitMessages}

call_generate_response ==
    /\ unit.fn = "generate_response"
    /\ ~unit.called
    /\ unit' = [unit EXCEPT !.called = TRUE, !.output = generate_response(unit.input)]
    /\ UNCHANGED <<conversations, messages, chat, reply>>

call_analyze_user_message ==
    /\ unit.fn = "analyze_user_message"
    /\ ~unit.called
    /\ unit' = [unit EXCEPT !.called = TRUE, !.output = analyze_user_message(unit.input)]
    /\ UNCHANGED <<conversations, messages, chat, reply>>

NextUnit == call_generate_response \/ call_analyze_user_message

SpecUnit == InitUnit /\ [][NextUnit]_vars

\* The text between the first and the last character of s that is not
\* whitespace; empty when there is none.
Trimmed(s) ==
    LET inked == {i \in 1..Len(s) : ~IsSpace(Char(s, i))} IN
    IF inked = {} THEN ""
    ELSE SubSeq(s, CHOOSE i \in inked : \A j \in inked : i <= j,
                   CHOOSE i \in inked : \A j \in inked : j <= i)

\* C5: a completion text whose trimmed form is empty or shorter than 10
\* characters is answered with the generic fallback line, never with the
\* text; a trimmed form of 10 or more characters is returned unchanged.
C5_ShortCompletionReplaced ==
    (unit.fn = "generate_response" /\ unit.called /\ ~unit.input.raised) =>
        /\ ~unit.output.raised
        /\ IF Len(Trimmed(unit.input.text)) < 10
           THEN /\ unit.output.text = GenericFallback
                /\ unit.output.text # unit.input.text
           ELSE unit.output.text = Trimmed(unit.input.text)

\* A text of ten characters or more whose trimmed form is shorter, replaced;
\* the fallback line itself is longer than the limit.
C5_Witness ==
    /\ unit.fn = "generate_response" /\ unit.called /\ ~unit.input.raised
    /\ Len(unit.input.text) >= 10
    /\ Len(Trimmed(unit.input.text)) = 9
    /\ unit.output.text = GenericFallback

\* keyword occurs in text, letter case of text ignored.
OccursIgnoringCase(text, keyword) ==
    \E i \in 1..Len(text) :
        /\ i + Len(keyword) - 1 <= Len(text)
        /\ \A j \in 1..Len(keyword) : LowerChar(Char(text, i + j - 1)) = Char(keyword, j)

\* C6: urgency_level is high when the lower-cased text contains a crisis
\* keyword, whatever else it contains; medium when it contains an urgent
\* keyword and no crisis keyword; low otherwise.
C6_UrgencyPriority ==
    (unit.fn = "analyze_user_message" /\ unit.called) =>
        LET crisis == \E k \in crisis_keywords : OccursIgnoringCase(unit.input, k)
            urgent == \E k \in urgent_keywords : OccursIgnoringCase(unit.input, k)
        IN  /\ crisis => unit.output.urgency_level = "high"
            /\ (urgent /\ ~crisis) => unit.output.urgency_level = "medium"
            /\ (~urgent /\ ~crisis) => unit.output.urgency_level = "low"
            /\ unit.output.is_crisis = crisis
            /\ unit.output.is_urgent = urgent

\* A text with a crisis keyword and an urgent keyword, in capitals.
C6_Witness ==
    /\ unit.fn = "analyze_user_message" /\ unit.called
    /\ unit.input = "this is URGENT I want to END it all"
    /\ unit.output.is_crisis /\ unit.output.is_urgent
    /\ unit.output.urgency_level = "high"

(***************************************************************************)
(* Properties of the POST /chat requests (Spec)                            *)
(***************************************************************************)
ConversationsOf(user_id) == {c \in Rows(conversations) : c.user_id = user_id}

MessagesOf(user_id) == SelectSeq(messages, LAMBDA m : m.user_id = user_id)

\* r is the only request its user has sent.
OnlyRequestOfUser(r) ==
    \A q \in Requests :
        q # r => chat[q].pc = "idle" \/ chat[q].user_id # chat[r].user_id

Succeeded(r) == chat[r].pc = "done" /\ chat[r].status = 200

\* C1: after the one successful POST /chat of a user that had no rows, the
\* store holds exactly one conversation of that user and exactly two of its
\* messages: the user row with the inbound text, then the assistant row with
\* the reply of the gateway.
C1_FirstChatRows ==
    \A r \in Requests :
        (Succeeded(r) /\ OnlyRequestOfUser(r)) =>
            LET rows == MessagesOf(chat[r].user_id) IN
            /\ Cardinality(ConversationsOf(chat[r].user_id)) = 1
            /\ Len(rows) = 2
            /\ rows[1].role = "user"
            /\ rows[1].content = chat[r].message
            /\ rows[2].role = "assistant"
            /\ rows[2].content = chat[r].ai_response
            /\ \A i \in 1..2 :
                  {rows[i].conversation_id} = {c.id : c \in ConversationsOf(chat[r].user_id)}

C1_Witness ==
    \E r \in Requests :
        /\ Succeeded(r)
        /\ OnlyRequestOfUser(r)
        /\ Len(MessagesOf(chat[r].user_id)) = 2
        /\ Len(messages) = 4

\* C2: no user id ever has more than one conversation, also when two
\* requests of a new user both looked the conversation up before either
\* inserted it.
C2_OneConversationPerUser ==
    \A user_id \in Users : Cardinality(ConversationsOf(user_id)) <= 1

\* Two requests of one user both found no conversation; one inserted it and
\* the other was refused.
C2_Witness ==
    \E r \in Requests, q \in Requests :
        /\ r # q
        /\ chat[r].user_id = chat[q].user_id
        /\ chat[r].failed_at = "create_conversation"
        /\ chat[r].status = 500
        /\ chat[q].pc \notin {"idle", "get_conversation", "create_conversation"}
        /\ chat[q].conversation = Len(conversations)

EndsWith(text, suffix) ==
    /\ Len(suffix) <= Len(text)
    /\ SubSeq(text, Len(text) - Len(suffix) + 1, Len(text)) = suffix

\* C3: the response text of a successful request is the content saved for
\* its assistant message, followed by the hotline notice exactly when the
\* message analysis says is_crisis; no saved content ends with the notice.
C3_NoticeOnlyInResponse ==
    /\ \A r \in Requests :
          Succeeded(r) =>
              LET content == messages[chat[r].assistant_message].content IN
              /\ messages[chat[r].assistant_message].role = "assistant"
              /\ chat[r].response =
                    IF chat[r].current_message_analysis.is_crisis
                    THEN content \o CrisisNotice
                    ELSE content
    /\ \A m \in Rows(messages) : ~EndsWith(m.content, CrisisNotice)

C3_Witness ==
    \E r \in Requests, q \in Requests :
        /\ Succeeded(r) /\ chat[r].current_message_analysis.is_crisis
        /\ EndsWith(chat[r].response, CrisisNotice)
        /\ Succeeded(q) /\ ~chat[q].current_message_analysis.is_crisis

\* C4: when the completion call raised, generate_response returned the
\* apology fallback, the request went on to save it as the assistant message
\* and answered with a success payload.
C4_CompletionFailureSwallowed ==
    \A r \in Requests :
        chat[r].completion = "raised" =>
            /\ chat[r].ai_response = ApologyFallback
            /\ chat[r].pc \in {"save_assistant_message", "done"}
            /\ chat[r].pc = "done" =>
                  /\ chat[r].status = 200
                  /\ messages[chat[r].assistant_message].role = "assistant"
                  /\ messages[chat[r].assistant_message].user_id = chat[r].user_id
                  /\ messages[chat[r].assistant_message].content = ApologyFallback

C4_Witness ==
    \E r \in Requests :
        /\ chat[r].completion = "raised"
        /\ Succeeded(r)
        /\ messages[chat[r].assistant_message].content = ApologyFallback

\* The request is between its arrival and its response.
InFlight(r) == chat[r].pc \notin {"idle", "done"}

\* C17: requests of one user are not serialized. While a request is in
\* flight a further request of the same user can arrive, and a request can
\* store its inbound message and read the history whatever the others are
\* doing.
C17_NotSerialized ==
    \A q \in Requests :
        InFlight(q) =>
            /\ chat[q].pc = "save_user_message" => ENABLED save_user_message(q)
            /\ chat[q].pc = "get_history" => ENABLED get_history(q)
            /\ \A r \in Requests :
                  (chat[r].pc = "idle" /\ \A p \in Requests : p < r => chat[p].pc # "idle")
                      => ENABLED (\E message \in ChatTexts :
                                     post_chat(r, chat[q].user_id, message))

\* The interleaving: the log of one user reads user, user, assistant,
\* assistant, and the analysis one request took (total_messages, topics,
\* sentiment) knows its own message only, though the user row of the other
\* request was stored before the first assistant row.
C17_Witness ==
    /\ Len(messages) = 4
    /\ \A i \in 1..4 : messages[i].user_id = messages[1].user_id
    /\ <<messages[1].role, messages[2].role, messages[3].role, messages[4].role>>
          = <<"user", "user", "assistant", "assistant">>
    /\ \E r, q \in Requests :
          /\ r # q
          /\ Succeeded(r)
          /\ chat[q].user_message # 0
          /\ chat[q].user_message < chat[r].assistant_message
          /\ chat[q].message = "I want to END it all"
          /\ chat[r].message = "feeling good"
          /\ chat[r].user_analysis.total_messages = 1
          /\ chat[r].user_analysis.topics = <<"feeling", "good">>
          /\ chat[r].user_analysis.sentiment = "positive"

(***************************************************************************)
(* Properties of the GET endpoints (SpecRead)                              *)
(***************************************************************************)
\* The rows of the conversation of a user.
ConversationRows(user_id) ==
    {m \in Rows(messages) :
        \E c \in ConversationsOf(user_id) : m.conversation_id = c.id}

UserAuthored(user_id) ==
    {m \in Rows(messages) : m.user_id = user_id /\ m.role = "user"}

\* C9: for a user id without conversation, or without a message written by
\* the user, the analysis, the summary and the history are answered with
\* status 200 and zero values: message_count 0, no topics, sentiment
\* neutral, total_messages 0, an empty history, and total_conversations 0
\* when there is no conversation.
C9_UnknownUserIsZero ==
    (/\ reply.endpoint # "none"
     /\ (ConversationsOf(reply.user_id) = {} \/ UserAuthored(reply.user_id) = {})) =>
        /\ reply.status = 200
        /\ reply.endpoint = "history" => reply.history = <<>>
        /\ reply.endpoint = "analysis" =>
              /\ reply.analysis.message_count = 0
              /\ reply.analysis.topics = <<>>
              /\ reply.analysis.sentiment = "neutral"
        /\ reply.endpoint \in {"analysis", "summary"} =>
              /\ reply.summary.total_messages = 0
              /\ ConversationsOf(reply.user_id) = {} =>
                    reply.summary.total_conversations = 0

\* The analysis of a user whose conversation exists but holds no message
\* yet, while another user has messages.
C9_Witness ==
    /\ reply.endpoint = "analysis"
    /\ ConversationsOf(reply.user_id) # {}
    /\ UserAuthored(reply.user_id) = {}
    /\ reply.analysis = ZeroAnalysis
    /\ reply.summary.total_conversations = 1
    /\ messages # <<>>

NonDecreasing(history) ==
    \A i \in 1..Len(history), j \in 1..Len(history) :
        i < j => history[i].timestamp <= history[j].timestamp

\* The entries of history are the n latest of rows: for every timestamp t,
\* as many entries are at or after t as there are rows at or after t, up to
\* the length of history; and every entry is the dict of a row.
MostRecentOf(history, rows, n) ==
    /\ Len(history) = (IF n < Cardinality(rows) THEN n ELSE Cardinality(rows))
    /\ \A i \in 1..Len(history) : \E m \in rows : history[i] = history_entry(m)
    /\ \A t \in {m.timestamp : m \in rows} :
          LET at_or_after == Cardinality({m \in rows : m.timestamp >= t})
              returned == Cardinality({i \in 1..Len(history) : history[i].timestamp >= t})
          IN  returned = (IF Len(history) < at_or_after THEN Len(history) ELSE at_or_after)

\* C10: whatever the store holds, the history answered for a limit n is the
\* n most recent messages of the conversation of the user in non-decreasing
\* timestamp order, oldest first; so is the history a chat request loaded.
C10_HistoryOldestFirst ==
    /\ reply.endpoint = "history" =>
          /\ NonDecreasing(reply.history)
          /\ MostRecentOf(reply.history, ConversationRows(reply.user_id), reply.limit)
    /\ \A r \in Requests : NonDecreasing(chat[r].conversation_history)

\* Two requests of one user interleaved (user, user, assistant, assistant)
\* and the history cut to its two latest rows, of different timestamps.
C10_Witness ==
    /\ reply.endpoint = "history"
    /\ reply.limit = 2
    /\ Len(messages) = 4
    /\ \A i \in 1..4 : messages[i].user_id = reply.user_id
    /\ messages[1].role = "user" /\ messages[2].role = "user"
    /\ messages[1].timestamp = messages[2].timestamp
    /\ Len(reply.history) = 2
    /\ reply.history[1].timestamp < reply.history[2].timestamp

(***************************************************************************)
(* One request and the analysis over a long conversation (SpecHistory)     *)
(***************************************************************************)
\* The most exchanges (user message and reply) the store holds at the start.
MaxPrior == 51

\* The text of the oldest user message, of the user messages after it and of
\* every reply.
OldTexts == {"Good good GOOD progress", "feeling anxious, not great"}
FillerText == "ok"
ReplyText == "That sounds bad and sad, tell me more."

\* The texts of the request that follows.
HistoryTexts == {"I feel sad", "Sadness is bad.", "so HAPPY now"}
HistoryOutcomes == {Returned(ReplyText)}

\* The messages table after k exchanges of user u1, one after the other.
prior_messages(k, old) ==
    [i \in 1..(2 * k) |->
        Message(i, "u1", 1,
                IF i % 2 = 1 THEN "user" ELSE "assistant",
                IF i = 1 THEN old ELSE IF i % 2 = 1 THEN FillerText ELSE ReplyText,
                i)]

InitHistory ==
    /\ \E k \in 0..MaxPrior, old \in OldTexts :
          /\ messages = prior_messages(k, old)
          /\ conversations = IF k = 0 THEN <<>> ELSE <<Conversation(1, "u1")>>
    /\ chat = [r \in Requests |-> IdleChat]
    /\ reply = NoReply
    /\ unit = NoCall

NextHistory ==
    \/ chat_step({1}, HistoryTexts, HistoryOutcomes)
    \/ get_user_analysis("u1")

SpecHistory == InitHistory /\ [][NextHistory]_vars

AllMessages(user_id) == {m \in Rows(messages) : m.user_id = user_id}

\* C7: for a user with a message of their own, total_messages is the number
\* of all messages of the user, of both roles and however many, and
\* engagement_level is low up to 10, medium from 11 to 20, high from 21.
C7_EngagementThresholds ==
    /\ (reply.endpoint = "analysis" /\ UserAuthored(reply.user_id) # {}) =>
          LET total == Cardinality(AllMessages(reply.user_id)) IN
          /\ reply.analysis.total_messages = total
          /\ reply.analysis.engagement_level =
                (IF total <= 10 THEN "low" ELSE IF total <= 20 THEN "medium" ELSE "high")
    /\ \A r \in Requests :
          chat[r].pc \in {"generate", "completion", "save_assistant_message", "done"} =>
              /\ chat[r].user_analysis.total_messages >= 1
              /\ chat[r].user_analysis.engagement_level =
                    (IF chat[r].user_analysis.total_messages <= 10 THEN "low"
                     ELSE IF chat[r].user_analysis.total_messages <= 20 THEN "medium"
                     ELSE "high")

\* Eleven messages, the eleventh just posted: medium.
C7_Witness ==
    /\ reply.endpoint = "analysis"
    /\ Cardinality(AllMessages(reply.user_id)) = 11
    /\ reply.analysis.total_messages = 11
    /\ reply.analysis.engagement_level = "medium"

\* The number of whitespace-separated lower-cased tokens of text that equal
\* a word of word_list.
TokensIn(text, word_list) == count_in(split(lower(text)), word_list)

\* The sum of TokensIn over the messages lo..hi that are among rows.
RECURSIVE SumTokens(_, _, _, _)
SumTokens(rows, word_list, lo, hi) ==
    IF lo > hi THEN 0
    ELSE IF lo = hi
         THEN (IF messages[lo] \in rows THEN TokensIn(messages[lo].content, word_list) ELSE 0)
         ELSE SumTokens(rows, word_list, lo, (lo + hi) \div 2)
              + SumTokens(rows, word_list, (lo + hi) \div 2 + 1, hi)

SumTokensIn(rows, word_list) == SumTokens(rows, word_list, 1, Len(messages))

\* The 50 latest messages written by the user.
RecentUserAuthored(user_id) ==
    {m \in UserAuthored(user_id) :
        Cardinality({n \in UserAuthored(user_id) : n.timestamp > m.timestamp}) < 50}

\* C8: the sentiment is positive when the tokens of the 50 latest messages
\* written by the user hold more positive-list words than negative-list
\* words, negative in the opposite case and neutral on equal counts; what
\* the assistant wrote does not count.
C8_SentimentMajority ==
    (reply.endpoint = "analysis" /\ UserAuthored(reply.user_id) # {}) =>
        LET positive == SumTokensIn(RecentUserAuthored(reply.user_id), positive_words)
            negative == SumTokensIn(RecentUserAuthored(reply.user_id), negative_words)
        IN  reply.analysis.sentiment =
                (IF positive > negative THEN "positive"
                 ELSE IF negative > positive THEN "negative"
                 ELSE "neutral")

\* 51 user messages: the oldest, with four positive words, is out of the
\* window, and the one negative word of the latest decides.
C8_Witness ==
    /\ reply.endpoint = "analysis"
    /\ Cardinality(UserAuthored(reply.user_id)) = 51
    /\ messages[1].content = "Good good GOOD progress"
    /\ messages[Len(messages)].content = "I feel sad"
    /\ reply.analysis.sentiment = "negative"
    /\ reply.analysis.message_count = 50

(***************************************************************************)
(* The topics of get_user_sentiment_history, called on a window of user    *)
(* messages given in the order the query returned them                     *)
(***************************************************************************)
\* How many user messages a window holds.
MaxWindow == 3

TopicTexts ==
    {"Work stress at WORK", "my sleep and family", "money stress", "health friends sleep"}

\* The rows of a window holding the given texts, newest first.
window_rows(texts) ==
    [i \in 1..Len(texts) |->
        Message(Len(texts) + 1 - i, "u1", 1, "user", texts[i], Len(texts) + 1 - i)]

Windows ==
    UNION {{window_rows(texts) : texts \in [1..n -> TopicTexts]} : n \in 1..MaxWindow}

InitTopics ==
    /\ conversations = <<>>
    /\ messages = <<>>
    /\ chat = [r \in Requests |-> IdleChat]
    /\ reply = NoReply
    /\ unit \in {[fn |-> "analysis_of", user_messages |-> w, calls |-> 0,
                  first |-> ZeroAnalysis, result |-> ZeroAnalysis] : w \in Windows}

\* The analysis is computed over the window.
call_analysis_of ==
    /\ unit.fn = "analysis_of"
    /\ unit.calls = 0
    /\ LET result == analysis_of(unit.user_messages, Len(unit.user_messages)) IN
       unit' = [unit EXCEPT !.calls = 1, !.first = result, !.result = result]
    /\ UNCHANGED <<conversations, messages, chat, reply>>

\* The analysis is computed again over the same window.
repeat_analysis_of ==
    /\ unit.fn = "analysis_of"
    /\ unit.calls = 1
    /\ unit' = [unit EXCEPT !.calls = 2,
                            !.result = analysis_of(unit.user_messages,
                                                   Len(unit.user_messages))]
    /\ UNCHANGED <<conversations, messages, chat, reply>>

NextTopics == call_analysis_of \/ repeat_analysis_of

SpecTopics == InitTopics /\ [][NextTopics]_vars

\* The token stream of a window: the tokens of each lower-cased message, one
\* message after the other.
RECURSIVE TokenStream(_)
TokenStream(user_messages) ==
    IF user_messages = <<>> THEN <<>>
    ELSE split(lower(Head(user_messages).content)) \o TokenStream(Tail(user_messages))

Occurrences(stream, token) == {i \in 1..Len(stream) : stream[i] = token}

FirstOccurrence(stream, token) ==
    CHOOSE i \in Occurrences(stream, token) : \A j \in Occurrences(stream, token) : i <= j

\* Token a ranks before token b: it is more frequent, or as frequent and
\* first seen earlier.
RanksBefore(stream, a, b) ==
    \/ Cardinality(Occurrences(stream, a)) > Cardinality(Occurrences(stream, b))
    \/ /\ Cardinality(Occurrences(stream, a)) = Cardinality(Occurrences(stream, b))
       /\ FirstOccurrence(stream, a) < FirstOccurrence(stream, b)

TopicCandidates(stream) == {stream[i] : i \in {j \in 1..Len(stream) : Len(stream[j]) > 3}}

\* C11: topics holds at most 5 distinct lower-cased tokens longer than 3
\* characters, the best-ranked ones, in descending frequency with tokens of
\* equal frequency in the order of their first appearance in the token
\* stream of the window (newest message first); computing the analysis again
\* over the same window gives the same topics.
C11_TopicsRanked ==
    (unit.fn = "analysis_of" /\ unit.calls > 0) =>
        LET stream == TokenStream(unit.user_messages)
            topics == unit.result.topics
            candidates == TopicCandidates(stream)
        IN  /\ Len(topics) = (IF Cardinality(candidates) < 5
                              THEN Cardinality(candidates) ELSE 5)
            /\ \A i \in 1..Len(topics) :
                  /\ topics[i] \in candidates
                  /\ lower(topics[i]) = topics[i]
            /\ \A i, j \in 1..Len(topics) :
                  i < j => RanksBefore(stream, topics[i], topics[j])
            /\ \A c \in candidates :
                  (\A i \in 1..Len(topics) : topics[i] # c) =>
                      \A i \in 1..Len(topics) : RanksBefore(stream, topics[i], c)
            /\ unit.result.topics = unit.first.topics

\* More than 5 candidate tokens, two reported topics of equal frequency, and
\* the analysis computed twice.
C11_Witness ==
    /\ unit.fn = "analysis_of"
    /\ unit.calls = 2
    /\ Cardinality(TopicCandidates(TokenStream(unit.user_messages))) > 5
    /\ Len(unit.result.topics) = 5
    /\ \E i \in 1..4 :
          Cardinality(Occurrences(TokenStream(unit.user_messages), unit.result.topics[i]))
            = Cardinality(Occurrences(TokenStream(unit.user_messages),
                                      unit.result.topics[i + 1]))
    /\ \E i \in 1..Len(TokenStream(unit.user_messages)) :
          TokenStream(unit.user_messages)[i] = "work"

(***************************************************************************)
(* Properties of POST /chat with failing database calls (SpecFailure)      *)
(***************************************************************************)
\* C12: the message store is append-only. Every step keeps every row of table
\* messages at its place with the same user id, conversation, role, content
\* and timestamp, and every row carries the role "user" or "assistant".
C12_AppendOnly ==
    [][/\ Len(messages') >= Len(messages)
       /\ \A i \in 1..Len(messages) : messages'[i] = messages[i]
       /\ \A i \in 1..Len(messages') : messages'[i].role \in {"user", "assistant"}]_vars

\* Rows of both roles are stored, one request has failed on a database call
\* and another has answered after it.
C12_Witness ==
    /\ \E i, j \in 1..Len(messages) :
          messages[i].role = "user" /\ messages[j].role = "assistant"
    /\ Len(messages) >= 3
    /\ \E r, q \in Requests :
          /\ chat[r].pc = "done" /\ chat[r].status = 500
          /\ Succeeded(q)

\* C13: a database call that raises at any step of a POST /chat request,
\* the read of the conversation summary while the prompt is built included,
\* ends the request with the internal error, never with a success payload
\* that carries a fallback reply.
C13_PersistenceFailureIsInternalError ==
    \A r \in Requests :
        (chat[r].pc = "done" /\ chat[r].failed_at \in DbSteps \cup {"get_user_conversation_summary"})
            => /\ chat[r].status = 500
               /\ chat[r].response = ""

\* The place of a statement of chat_endpoint in its sequence.
Rank(pc) ==
    CASE pc = "idle" -> 0
      [] pc = "get_conversation" -> 1
      [] pc = "create_conversation" -> 2
      [] pc = "save_user_message" -> 3
      [] pc = "get_history" -> 4
      [] pc = "get_analysis" -> 5
      [] pc = "generate" -> 6
      [] pc = "completion" -> 7
      [] pc = "save_assistant_message" -> 8
      [] pc = "done" -> 9

\* C15: within every POST /chat request the steps occur strictly in order,
\* each at most once. A step of a request moves it forward, never back and
\* never to where it is (no retry of the completion call); a user row is
\* appended only by the step that saves the inbound message, before the
\* history and the analysis are read and before the completion call starts;
\* an assistant row is appended only by the step after the call of the
\* gateway has returned, with what it returned.
C15_StepsInOrder ==
    [][\A r \in Requests :
          chat'[r] # chat[r] =>
             /\ Rank(chat'[r].pc) > Rank(chat[r].pc)
             /\ chat[r].pc = "completion" => chat'[r].pc = "save_assistant_message"
             /\ Rank(chat[r].pc) \in 4..8 =>
                   /\ chat[r].user_message \in 1..Len(messages)
                   /\ messages[chat[r].user_message].role = "user"
                   /\ messages[chat[r].user_message].content = chat[r].message
                   /\ chat[r].assistant_message = 0
             /\ Len(messages') > Len(messages) =>
                   /\ Len(messages') = Len(messages) + 1
                   /\ \/ /\ messages'[Len(messages')].role = "user"
                         /\ chat[r].pc = "save_user_message"
                      \/ /\ messages'[Len(messages')].role = "assistant"
                         /\ chat[r].pc = "save_assistant_message"
                         /\ chat[r].ai_response # ""
                         /\ messages'[Len(messages')].content = chat[r].ai_response]_vars

\* One request went through all its steps, its completion call returned once
\* and both its rows are stored; another stopped after its user row.
C15_Witness ==
    \E r, q \in Requests :
        /\ Succeeded(r)
        /\ chat[r].completion = "returned"
        /\ chat[r].user_message < chat[r].assistant_message
        /\ chat[q].pc = "done"
        /\ chat[q].status = 500
        /\ chat[q].user_message # 0

\* The statements of chat_endpoint after the inbound message was saved.
AfterInbound ==
    {"get_history", "get_analysis", "generate", "save_assistant_message",
     "context_analysis"}

\* The request ended in the outer handler of chat_endpoint, at a statement
\* after the inbound message was saved.
FailedAfterInbound(r) ==
    /\ chat[r].pc = "done"
    /\ chat[r].status = 500
    /\ chat[r].failed_at \in AfterInbound

\* C16: a POST /chat request that fails after its inbound message was
\* persisted answers with the internal error, without a reply, and its user
\* row and its conversation stay in the store from then on; no step removes
\* or changes a stored row.
C16_NoRollback ==
    /\ [](\A r \in Requests :
            FailedAfterInbound(r) =>
               /\ chat[r].response = ""
               /\ chat[r].user_message \in 1..Len(messages)
               /\ messages[chat[r].user_message].role = "user"
               /\ messages[chat[r].user_message].content = chat[r].message
               /\ messages[chat[r].user_message].user_id = chat[r].user_id
               /\ \E c \in Rows(conversations) :
                     /\ c.user_id = chat[r].user_id
                     /\ c.id = messages[chat[r].user_message].conversation_id)
    /\ [][/\ Len(messages') >= Len(messages)
          /\ SubSeq(messages', 1, Len(messages)) = messages
          /\ Len(conversations') >= Len(conversations)
          /\ SubSeq(conversations', 1, Len(conversations)) = conversations]_vars

\* A request failed reading after its user row was stored, and the log of its
\* user holds that user turn and no assistant turn.
C16_Witness ==
    \E r \in Requests :
        /\ FailedAfterInbound(r)
        /\ chat[r].failed_at = "get_analysis"
        /\ Len(MessagesOf(chat[r].user_id)) = 1
        /\ MessagesOf(chat[r].user_id)[1].role = "user"

\* C20: in every POST /chat request that has taken its analysis, whatever the
\* other requests did meanwhile, the analysis has message_count >= 1 and
\* carries total_messages >= 1 and engagement_level, so that neither the
\* profile guard of the prompt nor context_analysis fails on a missing key.
C20_AnalysisNeverEmpty ==
    \A r \in Requests :
        /\ Rank(chat[r].pc) \in 6..8 =>
              /\ chat[r].user_analysis.message_count >= 1
              /\ {"total_messages", "engagement_level"} \subseteq DOMAIN chat[r].user_analysis
              /\ chat[r].user_analysis.total_messages >= chat[r].user_analysis.message_count
        /\ chat[r].failed_at \notin {"generate", "context_analysis"}
        /\ (chat[r].pc = "done" /\ chat[r].assistant_message # 0) => chat[r].status = 200

\* A request answered with the analysis it took while another request of the
\* same user was under way, which then failed.
C20_Witness ==
    \E r, q \in Requests :
        /\ r # q
        /\ chat[q].user_id = chat[r].user_id
        /\ chat[q].pc = "done"
        /\ chat[q].status = 500
        /\ Succeeded(r)
        /\ chat[r].prompt # ""
        /\ chat[r].user_analysis.message_count >= 1

MaxTurns == 8

PromptTexts == {"I feel sad today", "ok"}
PromptOutcomes == {Returned("Thank you for telling me.")}

\* The earlier turns of user u1: user and assistant rows in turn.
earlier_turns(k) ==
    [i \in 1..k |->
        Message(i, "u1", 1, IF i % 2 = 1 THEN "user" ELSE "assistant",
                (IF i % 2 = 1 THEN "q" ELSE "a") \o ToString(i), i)]

InitPrompt ==
    /\ \E k \in 0..MaxTurns :
          /\ messages = earlier_turns(k)
          /\ conversations = IF k = 0 THEN <<>> ELSE <<Conversation(1, "u1")>>
    /\ chat = [r \in Requests |-> IdleChat]
    /\ reply = NoReply
    /\ unit = NoCall

\* ai_service.build_contextual_prompt(user_id, message, history, analysis, db_service)
\* on a history and an analysis read from the store.
call_build_contextual_prompt(user_id, user_message, n) ==
    /\ \E conversation_history \in get_conversation_history(user_id, n),
          user_analysis \in get_user_sentiment_history(user_id) :
          unit' = [fn |-> "build_contextual_prompt",
                   user_id |-> user_id,
                   user_message |-> user_message,
                   conversation_history |-> conversation_history,
                   user_analysis |-> user_analysis,
                   output |-> build_contextual_prompt(user_id, user_message,
                                                      conversation_history, user_analysis)]
    /\ UNCHANGED <<conversations, messages, chat, reply>>

NextPrompt ==
    \/ chat_step({1}, PromptTexts, PromptOutcomes)
    \/ \E user_id \in Users, user_message \in PromptTexts, n \in {0, ChatHistoryLimit} :
          call_build_contextual_prompt(user_id, user_message, n)

SpecPrompt == InitPrompt /\ [][NextPrompt]_vars

\* Where marker first starts in text; 0 when it does not occur.
IndexOf(text, marker) ==
    LET at == {i \in 1..(Len(text) + 1 - Len(marker)) :
                  SubSeq(text, i, i + Len(marker) - 1) = marker}
    IN  IF at = {} THEN 0 ELSE CHOOSE i \in at : \A j \in at : i <= j

\* The lines "User: <text>" / "Assistant: <text>" of turns from..to.
RECURSIVE TurnLines(_, _, _)
TurnLines(history, from, to) ==
    IF from > to THEN ""
    ELSE "\n" \o (IF history[from].role = "user" THEN "User: " ELSE "Assistant: ")
         \o history[from].content \o TurnLines(history, from + 1, to)

\* The sections of a prompt composed for the given arguments: the persona
\* first, then the profile, the conversation count, the recent history (its
\* last 6 turns, oldest first), the current message and the cue last.
PromptWellFormed(prompt, user_id, user_message, history, analysis) ==
    LET header == "\n\nUser Profile (ID: " \o user_id \o "):"
        tail == "\n\nCurrent User Message: " \o user_message \o "\n\nAssistant:"
        pProfile == IndexOf(prompt, "\n- Total messages: ")
        pCount == IndexOf(prompt, "\n- User has ")
        pHistory == IndexOf(prompt, "\n\nRecent Conversation History:")
        pCurrent == IndexOf(prompt, "\n\nCurrent User Message: ")
        first == IF Len(history) > 6 THEN Len(history) - 5 ELSE 1
    IN  /\ SubSeq(prompt, 1, Len(SystemPrompt) + Len(header)) = SystemPrompt \o header
        /\ pCurrent > Len(SystemPrompt) + Len(header)
        /\ SubSeq(prompt, pCurrent, Len(prompt)) = tail
        /\ (pProfile > 0) <=> (analysis.message_count > 0)
        /\ pProfile > 0 => pProfile = Len(SystemPrompt) + Len(header) + 1
        /\ pCount > 0 => pProfile < pCount /\ pCount < pCurrent
        /\ (pHistory > 0) <=> (history # <<>>)
        /\ pHistory > 0 =>
              /\ pProfile < pHistory
              /\ pCount < pHistory
              /\ SubSeq(prompt, pHistory, pCurrent - 1) =
                    "\n\nRecent Conversation History:"
                    \o TurnLines(history, first, Len(history))

\* C14: every composed prompt has its sections in the fixed order persona,
\* user profile, conversation-count line, recent history (last 6 turns,
\* oldest first), current message line, cue line; the persona is first and
\* the cue last, the profile lines are there only when message_count > 0 and
\* the history section only when the history is not empty.
C14_PromptSections ==
    /\ \A r \in Requests :
          chat[r].prompt # "" =>
              PromptWellFormed(chat[r].prompt, chat[r].user_id, chat[r].message,
                               chat[r].conversation_history, chat[r].user_analysis)
    /\ (unit.fn = "build_contextual_prompt" /\ ~unit.output.raised) =>
          PromptWellFormed(unit.output.text, unit.user_id, unit.user_message,
                           unit.conversation_history, unit.user_analysis)

\* A request composed its prompt over a history of more than 6 turns, and a
\* direct call composed one without history.
C14_Witness ==
    /\ chat[1].prompt # ""
    /\ Len(chat[1].conversation_history) > 6
    /\ chat[1].user_analysis.topics # <<>>
    /\ unit.fn = "build_contextual_prompt"
    /\ ~unit.output.raised
    /\ unit.conversation_history = <<>>

(***************************************************************************)
(* Equal timestamps in one conversation (SpecRead)                         *)
(***************************************************************************)
\* Row a comes before row b by creation timestamp, then by id.
InsertionOrder(a, b) ==
    \/ a.timestamp < b.timestamp
    \/ a.timestamp = b.timestamp /\ a.id < b.id

\* The rows in that order.
ByTimestampThenId(rows) ==
    [k \in 1..Cardinality(rows) |->
        CHOOSE m \in rows : Cardinality({x \in rows : InsertionOrder(x, m)}) = k - 1]

\* C19: history retrieval orders messages of equal timestamp by insertion
\* order (increasing id), in the sequence it returns and in deciding which
\* messages are among the n most recent: the history is the last n rows of
\* the conversation in the order timestamp, then id.
C19_TiesByInsertionOrder ==
    reply.endpoint = "history" =>
        LET rows == ByTimestampThenId(ConversationRows(reply.user_id))
            n == IF reply.limit < Len(rows) THEN reply.limit ELSE Len(rows)
        IN  reply.history =
                [i \in 1..n |-> history_entry(rows[Len(rows) - n + i])]

(***************************************************************************)
(* Concurrent POST /chat requests for users with earlier turns             *)
(***************************************************************************)
NextTurns == chat_step(Requests, PromptTexts, PromptOutcomes)

SpecTurns == InitPrompt /\ [][NextTurns]_vars

\* No request of the same user ran while r did: each other request of the
\* user has not arrived, or had answered when r arrived, or arrived after r
\* answered. Arrivals and answers are placed by the number of rows stored.
NoConcurrentRequest(r) ==
    \A q \in Requests \ {r} :
        \/ chat[q].pc = "idle"
        \/ chat[q].user_id # chat[r].user_id
        \/ chat[q].assistant_message # 0 /\ chat[q].assistant_message <= chat[r].arrived_at
        \/ chat[r].assistant_message # 0 /\ chat[r].assistant_message <= chat[q].arrived_at

\* How often marker occurs in text.
CountOf(text, marker) ==
    Cardinality({i \in 1..(Len(text) + 1 - Len(marker)) :
                    SubSeq(text, i, i + Len(marker) - 1) = marker})

\* C21: in a POST /chat request with no concurrent request of the same user,
\* the history loaded for the prompt ends with the inbound message just
\* stored; so the recent-history section of the prompt lists at most 5
\* earlier turns before it, and the text of the message stands in the prompt
\* twice, as the last history line and in the current-message line.
C21_InboundClosesHistory ==
    \A r \in Requests :
        (chat[r].prompt # "" /\ NoConcurrentRequest(r)) =>
            LET history == chat[r].conversation_history
                prompt == chat[r].prompt
                from == IndexOf(prompt, "\n\nRecent Conversation History:")
                to == IndexOf(prompt, "\n\nCurrent User Message: ")
                turns == CountOf(SubSeq(prompt, from, to - 1), "\nUser: ")
                         + CountOf(SubSeq(prompt, from, to - 1), "\nAssistant: ")
                ending == "\nUser: " \o chat[r].message
                          \o "\n\nCurrent User Message: " \o chat[r].message
                          \o "\n\nAssistant:"
            IN  /\ history # <<>>
                /\ history[Len(history)] =
                      history_entry(messages[chat[r].user_message])
                /\ history[Len(history)].content = chat[r].message
                /\ from > 0
                /\ turns = (IF Len(history) < 6 THEN Len(history) ELSE 6)
                /\ turns - 1 <= 5
                /\ SubSeq(prompt, Len(prompt) + 1 - Len(ending), Len(prompt)) = ending
                /\ CountOf(prompt, chat[r].message) >= 2

\* A request built its prompt over more turns than the prompt lists, the
\* last of them its own message, while a request of another user was under
\* way.
C21_Witness ==
    \E r, q \in Requests :
        /\ chat[r].prompt # ""
        /\ NoConcurrentRequest(r)
        /\ Len(chat[r].conversation_history) > 6
        /\ chat[r].message = "I feel sad today"
        /\ InFlight(q)
        /\ chat[q].user_id # chat[r].user_id
        /\ chat[q].user_message # 0
        /\ chat[q].user_message < chat[r].user_message

====
